---- MODULE Spec2Model ----
(* Model of the connection service of the-anna-project/connection:        *)
(* service.go (Create, Delete, Exists, Search, SearchPeers, Boot,         *)
(* Shutdown, Weight, NewService) and json.go (Config, DefaultConfig, New, *)
(* the connection struct and its MarshalJSON / UnmarshalJSON).            *)
(* The storage collection and the worker service are other repositories;  *)
(* they are modelled from the contracts the specification gives them.     *)
EXTENDS Integers, Sequences, FiniteSets, TLC

(* ------------------------------ bounds -------------------------------- *)

\* time.Now() returns a time in 1..MaxTime (0 is the zero time.Time)
MaxTime == 2
Times == 1..MaxTime
\* config.Weight ranges over 0..MaxWeight
MaxWeight == 2
\* at most MaxFailures storage operations fail
MaxFailures == 1

\* the goroutines that call the service, one call each
Callers == {"c1", "c2"}
NamespacesA == {"ns1"}
NamespacesB == {"ns2"}
PeerAIDs == {"pa"}
PeerBIDs == {"pb", "pc"}

Tuples == [nsA : NamespacesA, nsB : NamespacesB, pA : PeerAIDs, pB : PeerBIDs]

(* ------------------------------ errors -------------------------------- *)

NoError == [kind |-> "nil", msg |-> ""]
invalidConfigError(msg) == [kind |-> "invalidConfig", msg |-> msg]
notFoundError(msg) == [kind |-> "notFound", msg |-> msg]
\* the storage collection's own not-found error (storageerror.IsNotFound)
storageNotFound == [kind |-> "storageNotFound", msg |-> ""]
\* any other error of the storage collection
storageFailure == [kind |-> "storage", msg |-> ""]

IsNotFound(err) == err.kind = "notFound"
StorageIsNotFound(err) == err.kind = "storageNotFound"

(* ---------------------------- connection ------------------------------ *)

\* the nil Connection interface value
NilConnection ==
  [isNil |-> TRUE, created |-> 0, id |-> "", peerAID |-> "", peerBID |-> "", weight |-> 0]

ConnectionFields == {"created", "id", "peerAID", "peerBID", "weight"}

\* encoding/json only sees exported (upper-case) struct fields; the connection
\* struct declares created, id, peerAID, peerBID, weight, all unexported
ExportedFields == {}

Config(created, id, peerAID, peerBID, weight) ==
  [created |-> created, id |-> id, peerAID |-> peerAID, peerBID |-> peerBID, weight |-> weight]

DefaultConfig(t) == Config(t, "", "", "", 0)

\* New without the check of the peerB ID
New_NoPeerBCheck(config) ==
  IF config.created = 0
    THEN [conn |-> NilConnection, err |-> invalidConfigError("created must not be empty")]
  ELSE IF config.id = ""
    THEN [conn |-> NilConnection, err |-> invalidConfigError("ID must not be empty")]
  ELSE IF config.peerAID = ""
    THEN [conn |-> NilConnection, err |-> invalidConfigError("peerA ID must not be empty")]
  ELSE [conn |-> [isNil |-> FALSE, created |-> config.created, id |-> config.id,
                  peerAID |-> config.peerAID, peerBID |-> config.peerBID,
                  weight |-> config.weight],
        err |-> NoError]

New(config) ==
  IF config.created = 0
    THEN [conn |-> NilConnection, err |-> invalidConfigError("created must not be empty")]
  ELSE IF config.id = ""
    THEN [conn |-> NilConnection, err |-> invalidConfigError("ID must not be empty")]
  ELSE IF config.peerAID = ""
    THEN [conn |-> NilConnection, err |-> invalidConfigError("peerA ID must not be empty")]
  ELSE IF config.peerBID = ""
    THEN [conn |-> NilConnection, err |-> invalidConfigError("peerB ID must not be empty")]
  ELSE [conn |-> [isNil |-> FALSE, created |-> config.created, id |-> config.id,
                  peerAID |-> config.peerAID, peerBID |-> config.peerBID,
                  weight |-> config.weight],
        err |-> NoError]

\* the JSON document: the object's members, one per field the encoder sees
MarshalJSON(c) == [f \in ExportedFields |-> c[f]]

\* decoding overwrites the fields the decoder sees and the document carries
UnmarshalJSON(c, b) ==
  [f \in DOMAIN c |-> IF f \in ExportedFields /\ f \in DOMAIN b THEN b[f] ELSE c[f]]

(* ----------------------------- addressing ----------------------------- *)

connectionID(t) == t.nsA \o ":" \o t.nsB \o ":" \o t.pA \o ":" \o t.pB
listID(t) == t.nsA \o ":" \o t.nsB \o ":" \o t.pA

ConnectionIDs == {connectionID(t) : t \in Tuples}
ListIDs == {listID(t) : t \in Tuples}

(* ------------------------------- state -------------------------------- *)

VARIABLES
  svc,           \* "nil" before NewService succeeded, "ready" after
  weight,        \* s.weight
  newErr,        \* the error the last NewService call returned
  bootDone,      \* s.bootOnce has run
  shutdownDone,  \* s.shutdownOnce has run
  closerClosed,  \* s.closer is closed
  closeCount,    \* how many times close(s.closer) was executed
  kv,            \* s.storage.Connection: key -> stored string
  sets,          \* s.storage.Connection: set key -> members
  pc,            \* per caller: "idle", "executing" (inside worker.Execute)
                 \* or "returned"
  call,          \* per caller: the Create/Delete call in flight
  ret,           \* per caller: the call it made and what it got back
  last,          \* the caller whose call returned last
  failures,      \* storage operations that failed so far
  codec          \* a Connection on its way through New, MarshalJSON, UnmarshalJSON

vars == <<svc, weight, newErr, bootDone, shutdownDone, closerClosed, closeCount,
          kv, sets, pc, call, ret, last, failures, codec>>

lifecycle == <<bootDone, shutdownDone, closerClosed, closeCount>>
construction == <<svc, weight, newErr>>
storage == <<kv, sets>>

NoActs == <<"none", "none">>
Absent == [present |-> FALSE, doc |-> <<>>]

NoCall ==
  [op |-> "none", t |-> CHOOSE t \in Tuples : TRUE, acts |-> NoActs,
   err |-> NoError, connection |-> NilConnection, failed |-> FALSE,
   after |-> {}, alone |-> TRUE]

\* what a returned call is remembered by
\* (after: the callers that had returned when the call began; alone: no other
\* caller was inside Execute while the call ran)
Returned(op, t, conn, ok, peers, num, err, acts, failed, after, alone) ==
  [op |-> op, t |-> t, conn |-> conn, ok |-> ok, peers |-> peers, num |-> num,
   err |-> err, acts |-> acts, failed |-> failed, after |-> after, alone |-> alone]

NoReturn ==
  Returned("none", NoCall.t, NilConnection, FALSE, {}, 0, NoError, NoActs, FALSE,
           {}, TRUE)

\* the configurations New is called with
Configs ==
  [created : 0..MaxTime, id : {""} \cup ConnectionIDs, peerAID : {""} \cup PeerAIDs,
   peerBID : {""} \cup PeerBIDs, weight : 0..MaxWeight]

NoCodec ==
  [stage |-> "none", config |-> DefaultConfig(0), into |-> DefaultConfig(0),
   conn |-> NilConnection, target |-> NilConnection, err |-> NoError,
   doc |-> <<>>, out |-> NilConnection]

Init ==
  /\ codec = NoCodec
  /\ svc = "nil"
  /\ weight = 0
  /\ newErr = NoError
  /\ bootDone = FALSE
  /\ shutdownDone = FALSE
  /\ closerClosed = FALSE
  /\ closeCount = 0
  /\ kv = [k \in ConnectionIDs |-> Absent]
  /\ sets = [k \in ListIDs |-> {}]
  /\ pc = [p \in Callers |-> "idle"]
  /\ call = [p \in Callers |-> NoCall]
  /\ ret = [p \in Callers |-> NoReturn]
  /\ last = "none"
  /\ failures = 0

(* ------------------ storage collection (its contract) ------------------ *)

Get(key, fail) ==
  IF fail THEN [value |-> <<>>, err |-> storageFailure]
  ELSE IF ~kv[key].present THEN [value |-> <<>>, err |-> storageNotFound]
  ELSE [value |-> kv[key].doc, err |-> NoError]

Set(key, value) == [kv EXCEPT ![key] = [present |-> TRUE, doc |-> value]]
Remove(key) == [kv EXCEPT ![key] = Absent]
PushToSet(key, member) == [sets EXCEPT ![key] = @ \cup {member}]
RemoveFromSet(key, member) == [sets EXCEPT ![key] = @ \ {member}]
GetAllFromSet(key, fail) ==
  IF fail THEN [result |-> {}, err |-> storageFailure]
  ELSE [result |-> sets[key], err |-> NoError]

(* ------------------------- synchronous lookups ------------------------- *)

\* Search naming the adjacency key in its NotFound error
Search_ListID(t, fail, now) ==
  LET id == connectionID(t)
      r == Get(id, fail)
  IN IF StorageIsNotFound(r.err)
       THEN [conn |-> NilConnection, err |-> notFoundError(listID(t))]
     ELSE IF r.err # NoError THEN [conn |-> NilConnection, err |-> r.err]
     ELSE LET n == New(DefaultConfig(now))
          IN IF n.err # NoError THEN [conn |-> NilConnection, err |-> n.err]
             ELSE [conn |-> UnmarshalJSON(n.conn, r.value), err |-> NoError]

Search(t, fail, now) ==
  LET id == connectionID(t)
      r == Get(id, fail)
  IN IF StorageIsNotFound(r.err) THEN [conn |-> NilConnection, err |-> notFoundError(id)]
     ELSE IF r.err # NoError THEN [conn |-> NilConnection, err |-> r.err]
     ELSE LET n == New(DefaultConfig(now))
          IN IF n.err # NoError THEN [conn |-> NilConnection, err |-> n.err]
             ELSE [conn |-> UnmarshalJSON(n.conn, r.value), err |-> NoError]

Exists(t, fail, now) ==
  LET r == Search(t, fail, now)
  IN IF IsNotFound(r.err) THEN [ok |-> FALSE, err |-> NoError]
     ELSE IF r.err # NoError THEN [ok |-> FALSE, err |-> r.err]
     ELSE [ok |-> TRUE, err |-> NoError]

SearchPeers(t, fail) ==
  LET id == listID(t)
      r == GetAllFromSet(id, fail)
  IN IF r.err # NoError THEN [peers |-> {}, err |-> r.err]
     ELSE IF Cardinality(r.result) = 0 THEN [peers |-> {}, err |-> notFoundError(id)]
     ELSE [peers |-> r.result, err |-> NoError]

Weight == weight

(* ------------------------ construction, lifecycle ---------------------- *)

NewServiceResult(hasStorage, hasWorker, w) ==
  IF ~hasStorage THEN invalidConfigError("storage collection must not be empty")
  ELSE IF ~hasWorker THEN invalidConfigError("worker service must not be empty")
  ELSE IF w = 0 THEN invalidConfigError("weight must not be empty")
  ELSE NoError

NewService(hasStorage, hasWorker, w) ==
  /\ svc = "nil"
  /\ newErr' = NewServiceResult(hasStorage, hasWorker, w)
  /\ IF newErr' = NoError
       THEN svc' = "ready" /\ weight' = w
       ELSE UNCHANGED <<svc, weight>>
  /\ UNCHANGED <<lifecycle, storage, pc, call, ret, last, failures, codec>>

Boot ==
  /\ svc = "ready"
  /\ bootDone' = TRUE
  /\ UNCHANGED <<construction, shutdownDone, closerClosed, closeCount, storage,
                 pc, call, ret, last, failures, codec>>

\* Shutdown without the sync.Once: every call closes the channel again
Shutdown_NoOnce ==
  /\ svc = "ready"
  /\ shutdownDone' = TRUE
  /\ closerClosed' = TRUE
  /\ closeCount' = closeCount + 1
  /\ UNCHANGED <<construction, bootDone, storage, pc, call, ret, last, failures, codec>>

\* Shutdown without the sync.Once: a second call undoes the first
Shutdown_Toggle ==
  /\ svc = "ready"
  /\ shutdownDone' = ~shutdownDone
  /\ closerClosed' = ~closerClosed
  /\ closeCount' = IF shutdownDone THEN closeCount ELSE closeCount + 1
  /\ UNCHANGED <<construction, bootDone, storage, pc, call, ret, last, failures, codec>>

Shutdown ==
  /\ svc = "ready"
  /\ IF ~shutdownDone
       THEN /\ shutdownDone' = TRUE
            /\ closerClosed' = TRUE
            /\ closeCount' = closeCount + 1
       ELSE UNCHANGED <<shutdownDone, closerClosed, closeCount>>
  /\ UNCHANGED <<construction, bootDone, storage, pc, call, ret, last, failures, codec>>

(* ------------------------- calls and their return ---------------------- *)

NoneExecuting(p) == \A q \in Callers \ {p} : pc[q] # "executing"
HaveReturned == {q \in Callers : pc[q] = "returned"}

\* caller p may issue its call
CanCall(p) == svc = "ready" /\ pc[p] = "idle"

\* caller p gets r back
Return(p, r) ==
  /\ ret' = [ret EXCEPT ![p] = r]
  /\ last' = p
  /\ pc' = [pc EXCEPT ![p] = "returned"]
  /\ call' = [call EXCEPT ![p] = NoCall]

\* a call that returns without going through worker.Execute
Direct(p, r) ==
  /\ Return(p, r)
  /\ UNCHANGED <<construction, lifecycle, storage, codec>>

\* a storage operation fails only while the failure budget lasts
Storage(fail) ==
  /\ fail => failures < MaxFailures
  /\ failures' = IF fail THEN failures + 1 ELSE failures

ExistsCall(p, t, fail, now) ==
  /\ CanCall(p)
  /\ Storage(fail)
  /\ LET r == Exists(t, fail, now)
     IN Direct(p, Returned("Exists", t, NilConnection, r.ok, {}, 0, r.err, NoActs,
                           fail, HaveReturned, NoneExecuting(p)))

SearchCall(p, t, fail, now) ==
  /\ CanCall(p)
  /\ Storage(fail)
  /\ LET r == Search(t, fail, now)
     IN Direct(p, Returned("Search", t, r.conn, FALSE, {}, 0, r.err, NoActs,
                           fail, HaveReturned, NoneExecuting(p)))

SearchPeersCall(p, t, fail) ==
  /\ CanCall(p)
  /\ Storage(fail)
  /\ LET r == SearchPeers(t, fail)
     IN Direct(p, Returned("SearchPeers", t, NilConnection, FALSE, r.peers, 0, r.err,
                           NoActs, fail, HaveReturned, NoneExecuting(p)))

WeightCall(p) ==
  /\ CanCall(p)
  /\ UNCHANGED failures
  /\ Direct(p, Returned("Weight", NoCall.t, NilConnection, FALSE, {}, Weight, NoError,
                        NoActs, FALSE, HaveReturned, NoneExecuting(p)))

(* ------------------- worker.Execute (its contract) --------------------- *)

Terminal == {"done", "failed", "aborted"}

\* caller p hands its two actions to worker.Execute
Execute(p, op, t) ==
  /\ pc' = [pc EXCEPT ![p] = "executing"]
  /\ call' = [q \in Callers |->
                IF q = p
                  THEN [op |-> op, t |-> t, acts |-> <<"pending", "pending">>,
                        err |-> NoError, connection |-> NilConnection,
                        failed |-> FALSE, after |-> HaveReturned,
                        alone |-> NoneExecuting(p)]
                ELSE IF pc[q] = "executing" THEN [call[q] EXCEPT !.alone = FALSE]
                ELSE call[q]]
  /\ UNCHANGED <<construction, lifecycle, storage, ret, last, codec>>

\* a worker picks up action i; no action is launched once the canceler fired
RunnerLaunch(p, i) ==
  /\ pc[p] = "executing"
  /\ call[p].acts[i] = "pending"
  /\ ~closerClosed
  /\ call' = [call EXCEPT ![p].acts[i] = "running"]
  /\ UNCHANGED <<construction, lifecycle, storage, pc, ret, last, failures, codec>>

\* the runner sees the canceler fired and drops action i
RunnerAbort(p, i) ==
  /\ pc[p] = "executing"
  /\ call[p].acts[i] = "pending"
  /\ closerClosed
  /\ call' = [call EXCEPT ![p].acts[i] = "aborted"]
  /\ UNCHANGED <<construction, lifecycle, storage, pc, ret, last, failures, codec>>

\* Execute returns once no action is pending or running
ExecuteDone(c) == \A i \in 1..2 : c.acts[i] \in Terminal

\* Execute returns the first error an action returned, or nil
ExecuteResult(c) == c.err

\* action i of call c returned err
ActionReturned(c, i, err) ==
  [c EXCEPT !.acts[i] = IF err = NoError THEN "done" ELSE "failed",
            !.err = IF c.err = NoError THEN err ELSE c.err]

(* --------------------------- Create, Delete ---------------------------- *)

\* Create going on to write when the lookup failed
CreateBegin_IgnoreLookupError(p, t, fail, now) ==
  /\ CanCall(p)
  /\ Storage(fail)
  /\ LET r == Search(t, fail, now)
     IN IF ~r.conn.isNil
          THEN Direct(p, Returned("Create", t, r.conn, FALSE, {}, 0, NoError,
                                  NoActs, fail, HaveReturned, NoneExecuting(p)))
        ELSE Execute(p, "Create", t)

CreateBegin(p, t, fail, now) ==
  /\ CanCall(p)
  /\ Storage(fail)
  /\ LET r == Search(t, fail, now)
     IN IF ~IsNotFound(r.err) /\ r.err # NoError
          THEN Direct(p, Returned("Create", t, NilConnection, FALSE, {}, 0, r.err,
                                  NoActs, fail, HaveReturned, NoneExecuting(p)))
        ELSE IF ~r.conn.isNil
          THEN Direct(p, Returned("Create", t, r.conn, FALSE, {}, 0, NoError,
                                  NoActs, fail, HaveReturned, NoneExecuting(p)))
        ELSE Execute(p, "Create", t)

\* Delete without the early return for a connection that does not exist
DeleteBegin_Unchecked(p, t, fail, now) ==
  /\ CanCall(p)
  /\ Storage(fail)
  /\ LET r == Exists(t, fail, now)
     IN IF r.err # NoError
          THEN Direct(p, Returned("Delete", t, NilConnection, FALSE, {}, 0, r.err,
                                  NoActs, fail, HaveReturned, NoneExecuting(p)))
        ELSE Execute(p, "Delete", t)

DeleteBegin(p, t, fail, now) ==
  /\ CanCall(p)
  /\ Storage(fail)
  /\ LET r == Exists(t, fail, now)
     IN IF r.err # NoError
          THEN Direct(p, Returned("Delete", t, NilConnection, FALSE, {}, 0, r.err,
                                  NoActs, fail, HaveReturned, NoneExecuting(p)))
        ELSE IF ~r.ok
          THEN Direct(p, Returned("Delete", t, NilConnection, FALSE, {}, 0, NoError,
                                  NoActs, fail, HaveReturned, NoneExecuting(p)))
        ELSE Execute(p, "Delete", t)

\* the first action of Create adding peerA, not peerB, to the set
CreateAddPeer_PeerA(c, fail) ==
  IF fail
    THEN [c |-> [ActionReturned(c, 1, storageFailure) EXCEPT !.failed = TRUE],
          kv |-> kv, sets |-> sets]
    ELSE [c |-> ActionReturned(c, 1, NoError),
          kv |-> kv, sets |-> PushToSet(listID(c.t), c.t.pA)]

\* the first action of Create: PushToSet(listID, peerBID)
CreateAddPeer(c, fail) ==
  IF fail
    THEN [c |-> [ActionReturned(c, 1, storageFailure) EXCEPT !.failed = TRUE],
          kv |-> kv, sets |-> sets]
    ELSE [c |-> ActionReturned(c, 1, NoError),
          kv |-> kv, sets |-> PushToSet(listID(c.t), c.t.pB)]

\* the second action of Create building the id without the peerB ID
CreateWriteRecord_ListKey(c, fail, now) ==
  LET id == listID(c.t)
      connectionConfig == [DefaultConfig(now) EXCEPT !.id = id, !.peerAID = c.t.pA,
                                                     !.peerBID = c.t.pB,
                                                     !.weight = Weight]
      n == New(connectionConfig)
  IN IF n.err # NoError
       THEN [c |-> ActionReturned(c, 2, n.err), kv |-> kv, sets |-> sets]
     ELSE IF fail
       THEN [c |-> [ActionReturned(c, 2, storageFailure)
                      EXCEPT !.connection = n.conn, !.failed = TRUE],
             kv |-> kv, sets |-> sets]
     ELSE [c |-> [ActionReturned(c, 2, NoError) EXCEPT !.connection = n.conn],
           kv |-> Set(id, MarshalJSON(n.conn)), sets |-> sets]

\* the second action of Create leaving the weight of DefaultConfig in place
CreateWriteRecord_NoWeight(c, fail, now) ==
  LET id == connectionID(c.t)
      connectionConfig == [DefaultConfig(now) EXCEPT !.id = id, !.peerAID = c.t.pA,
                                                     !.peerBID = c.t.pB]
      n == New(connectionConfig)
  IN IF n.err # NoError
       THEN [c |-> ActionReturned(c, 2, n.err), kv |-> kv, sets |-> sets]
     ELSE IF fail
       THEN [c |-> [ActionReturned(c, 2, storageFailure)
                      EXCEPT !.connection = n.conn, !.failed = TRUE],
             kv |-> kv, sets |-> sets]
     ELSE [c |-> [ActionReturned(c, 2, NoError) EXCEPT !.connection = n.conn],
           kv |-> Set(id, MarshalJSON(n.conn)), sets |-> sets]

\* the second action of Create: New, json.Marshal, Set(connectionID, b)
CreateWriteRecord(c, fail, now) ==
  LET id == connectionID(c.t)
      connectionConfig == [DefaultConfig(now) EXCEPT !.id = id, !.peerAID = c.t.pA,
                                                     !.peerBID = c.t.pB,
                                                     !.weight = Weight]
      n == New(connectionConfig)
  IN IF n.err # NoError
       THEN [c |-> ActionReturned(c, 2, n.err), kv |-> kv, sets |-> sets]
     ELSE IF fail
       THEN [c |-> [ActionReturned(c, 2, storageFailure)
                      EXCEPT !.connection = n.conn, !.failed = TRUE],
             kv |-> kv, sets |-> sets]
     ELSE [c |-> [ActionReturned(c, 2, NoError) EXCEPT !.connection = n.conn],
           kv |-> Set(id, MarshalJSON(n.conn)), sets |-> sets]

\* the first action of Delete: RemoveFromSet(listID, peerBID)
DeleteRemovePeer(c, fail) ==
  IF fail
    THEN [c |-> [ActionReturned(c, 1, storageFailure) EXCEPT !.failed = TRUE],
          kv |-> kv, sets |-> sets]
    ELSE [c |-> ActionReturned(c, 1, NoError),
          kv |-> kv, sets |-> RemoveFromSet(listID(c.t), c.t.pB)]

\* the second action of Delete: Remove(connectionID)
DeleteRemoveRecord(c, fail) ==
  IF fail
    THEN [c |-> [ActionReturned(c, 2, storageFailure) EXCEPT !.failed = TRUE],
          kv |-> kv, sets |-> sets]
    ELSE [c |-> ActionReturned(c, 2, NoError),
          kv |-> Remove(connectionID(c.t)), sets |-> sets]

\* a worker runs action i of the call of caller p
RunAction(p, i, fail, now) ==
  /\ pc[p] = "executing" /\ call[p].acts[i] = "running"
  /\ Storage(fail)
  /\ LET c == call[p]
         r == IF c.op = "Create"
                THEN (IF i = 1 THEN CreateAddPeer(c, fail) 
                               ELSE CreateWriteRecord(c, fail, now))
                ELSE (IF i = 1 THEN DeleteRemovePeer(c, fail)
                               ELSE DeleteRemoveRecord(c, fail))
     IN /\ call' = [call EXCEPT ![p] = r.c]
        /\ kv' = r.kv
        /\ sets' = r.sets
  /\ UNCHANGED <<construction, lifecycle, pc, ret, last, codec>>

\* what Create returns after Execute returned
CreateResult(c) ==
  LET err == ExecuteResult(c)
  IN IF err # NoError THEN [conn |-> NilConnection, err |-> err]
     ELSE [conn |-> c.connection, err |-> NoError]

\* what Delete returns after Execute returned
DeleteResult(c) == [conn |-> NilConnection, err |-> ExecuteResult(c)]

\* Create and Delete returning without waiting for worker.Execute
ExecuteReturn_Early(p) ==
  /\ pc[p] = "executing"
  /\ LET c == call[p]
         r == IF c.op = "Create" THEN CreateResult(c) ELSE DeleteResult(c)
     IN Return(p, Returned(c.op, c.t, r.conn, FALSE, {}, 0, r.err, c.acts, c.failed,
                           c.after, c.alone))
  /\ UNCHANGED <<construction, lifecycle, storage, failures, codec>>

\* worker.Execute returns to Create or Delete, which returns to caller p
ExecuteReturn(p) ==
  /\ pc[p] = "executing"
  /\ ExecuteDone(call[p])
  /\ LET c == call[p]
         r == IF c.op = "Create" THEN CreateResult(c) ELSE DeleteResult(c)
     IN Return(p, Returned(c.op, c.t, r.conn, FALSE, {}, 0, r.err, c.acts, c.failed,
                           c.after, c.alone))
  /\ UNCHANGED <<construction, lifecycle, storage, failures, codec>>

(* ---------------------------- specification ---------------------------- *)

Next ==
  \/ \E hasStorage \in BOOLEAN, hasWorker \in BOOLEAN, w \in 0..MaxWeight :
       NewService(hasStorage, hasWorker, w)
  \/ Boot
  \/ Shutdown
  \/ \E p \in Callers, t \in Tuples, fail \in BOOLEAN, now \in Times : ExistsCall(p, t, fail, now)
  \/ \E p \in Callers, t \in Tuples, fail \in BOOLEAN, now \in Times : SearchCall(p, t, fail, now)
  \/ \E p \in Callers, t \in Tuples, fail \in BOOLEAN : SearchPeersCall(p, t, fail)
  \/ \E p \in Callers : WeightCall(p)
  \/ \E p \in Callers, t \in Tuples, fail \in BOOLEAN, now \in Times : CreateBegin(p, t, fail, now)
  \/ \E p \in Callers, t \in Tuples, fail \in BOOLEAN, now \in Times : DeleteBegin(p, t, fail, now)
  \/ \E p \in Callers, i \in 1..2 : RunnerLaunch(p, i)
  \/ \E p \in Callers, i \in 1..2 : RunnerAbort(p, i)
  \/ \E p \in Callers, i \in 1..2, fail \in BOOLEAN, now \in Times : RunAction(p, i, fail, now)
  \/ \E p \in Callers : ExecuteReturn(p)

Spec == Init /\ [][Next]_vars

\* a step of the goroutines that carry the call of caller p through
\* worker.Execute: a pending action is launched or dropped, a launched action
\* runs its storage call, Execute returns once no action is left
CallStep(p) ==
  \/ \E i \in 1..2 : RunnerLaunch(p, i)
  \/ \E i \in 1..2 : RunnerAbort(p, i)
  \/ \E i \in 1..2, fail \in BOOLEAN, now \in Times : RunAction(p, i, fail, now)
  \/ ExecuteReturn(p)

\* the goroutines of every call keep running
Fairness == \A p \in Callers : WF_vars(CallStep(p))

SpecFair == Spec /\ Fairness

(* ------------- New, MarshalJSON, UnmarshalJSON on their own ------------ *)

\* New(config) builds the Connection to encode, New(into) the one to decode into
CodecNew ==
  /\ codec.stage = "config"
  /\ LET n == New(codec.config)
         m == New(codec.into)
     IN codec' = [codec EXCEPT !.stage = IF n.err = NoError /\ m.err = NoError
                                           THEN "built" ELSE "invalid",
                               !.conn = n.conn, !.err = n.err, !.target = m.conn]
  /\ UNCHANGED <<construction, lifecycle, storage, pc, call, ret, last, failures>>

CodecMarshal ==
  /\ codec.stage = "built"
  /\ codec' = [codec EXCEPT !.stage = "encoded", !.doc = MarshalJSON(codec.conn)]
  /\ UNCHANGED <<construction, lifecycle, storage, pc, call, ret, last, failures>>

CodecUnmarshal ==
  /\ codec.stage = "encoded"
  /\ codec' = [codec EXCEPT !.stage = "decoded",
                            !.out = UnmarshalJSON(codec.target, codec.doc)]
  /\ UNCHANGED <<construction, lifecycle, storage, pc, call, ret, last, failures>>

InitCodec ==
  /\ codec \in {[NoCodec EXCEPT !.stage = "config", !.config = c, !.into = d] :
                  c \in Configs, d \in Configs}
  /\ svc = "nil"
  /\ weight = 0
  /\ newErr = NoError
  /\ bootDone = FALSE
  /\ shutdownDone = FALSE
  /\ closerClosed = FALSE
  /\ closeCount = 0
  /\ kv = [k \in ConnectionIDs |-> Absent]
  /\ sets = [k \in ListIDs |-> {}]
  /\ pc = [p \in Callers |-> "idle"]
  /\ call = [p \in Callers |-> NoCall]
  /\ ret = [p \in Callers |-> NoReturn]
  /\ last = "none"
  /\ failures = 0

NextCodec ==
  \/ CodecNew
  \/ CodecMarshal
  \/ CodecUnmarshal

SpecCodec == InitCodec /\ [][NextCodec]_vars

(* ------------------------------- claims -------------------------------- *)

Wrote == <<"done", "done">>
SameEdge(a, b) ==
  a.id = b.id /\ a.peerAID = b.peerAID /\ a.peerBID = b.peerBID /\ a.weight = b.weight

\* the operation caller r issued or is running
OpOf(r) == IF pc[r] = "executing" THEN call[r] ELSE ret[r]

\* caller p's call returned before caller q's call began, and no Delete of the
\* tuple t ran in between or alongside
InSequence(p, q, t) ==
  /\ p # q
  /\ pc[p] = "returned" /\ pc[q] = "returned"
  /\ p \in ret[q].after
  /\ \A r \in Callers \ {p, q} :
       (pc[r] # "idle" /\ OpOf(r).op = "Delete" /\ OpOf(r).t = t) => r \in ret[p].after

\* a Create of tuple t by caller p that was handed to Execute with no storage
\* failure, ran both its actions and returned no error
Created(p, t) ==
  /\ pc[p] = "returned"
  /\ ret[p].op = "Create" /\ ret[p].t = t
  /\ ret[p].err = NoError /\ ~ret[p].failed /\ ret[p].alone
  /\ ret[p].acts = Wrote

\* the state right after the call of caller p returned
RightAfter(p) == last = p /\ \A q \in Callers : pc[q] # "executing"

\* C1: two Create calls of one tuple in sequence, with no storage failure and no
\* Delete in between, both return no error and Connections with the same id,
\* peerAID, peerBID and weight, and the second call writes nothing.
C1_IdempotentCreate ==
  \A p \in Callers, q \in Callers, t \in Tuples :
    (/\ Created(p, t)
     /\ InSequence(p, q, t)
     /\ ret[q].op = "Create" /\ ret[q].t = t /\ ~ret[q].failed /\ ret[q].alone)
    => /\ ret[q].err = NoError
       /\ ~ret[q].conn.isNil
       /\ SameEdge(ret[q].conn, ret[p].conn)
       /\ ret[q].acts = NoActs

\* C2: right after a Create of a tuple returned no error (no storage failure, no
\* concurrent call), Exists of the tuple is true with no error and SearchPeers
\* of its adjacency key returns a collection holding peerBID.
C2_CreateThenExists ==
  \A p \in Callers, t \in Tuples, now \in Times :
    (Created(p, t) /\ RightAfter(p))
    => /\ Exists(t, FALSE, now) = [ok |-> TRUE, err |-> NoError]
       /\ SearchPeers(t, FALSE).err = NoError
       /\ t.pB \in SearchPeers(t, FALSE).peers

\* C3: a Delete of an edge created before (no storage failure, no concurrent
\* call) returns success; after it Exists is false with no error, the record
\* and the set member are gone, and SearchPeers fails with NotFound when the
\* set is left empty.
C3_DeleteThenAbsent ==
  \A p \in Callers, q \in Callers, t \in Tuples, now \in Times :
    (/\ Created(p, t)
     /\ InSequence(p, q, t)
     /\ RightAfter(q)
     /\ ret[q].op = "Delete" /\ ret[q].t = t /\ ~ret[q].failed /\ ret[q].alone)
    => /\ ret[q].err = NoError
       /\ Exists(t, FALSE, now) = [ok |-> FALSE, err |-> NoError]
       /\ ~kv[connectionID(t)].present
       /\ t.pB \notin sets[listID(t)]
       /\ (sets[listID(t)] = {} => IsNotFound(SearchPeers(t, FALSE).err))

\* C4: a Delete of a tuple whose record is absent returns success with no error,
\* hands nothing to the task runner and leaves the records and the sets as
\* they were.
C4_IdempotentDelete ==
  [][\A p \in Callers, t \in Tuples, now \in Times :
       (DeleteBegin(p, t, FALSE, now) /\ ~kv[connectionID(t)].present)
       => /\ pc'[p] = "returned"
          /\ ret'[p].op = "Delete" /\ ret'[p].err = NoError
          /\ ret'[p].acts = NoActs
          /\ call' = call
          /\ kv' = kv /\ sets' = sets]_vars

C4_Witness ==
  \E p \in Callers :
    /\ pc[p] = "returned" /\ ret[p].op = "Delete"
    /\ ret[p].err = NoError /\ ~ret[p].failed /\ ret[p].acts = NoActs
    /\ ~kv[connectionID(ret[p].t)].present

\* C5: Search of a tuple whose record a successful Create wrote returns, with
\* no error, a Connection with the id, peerAID, peerBID, weight and created of
\* the Connection that Create returned.
C5_SearchHit ==
  \A p \in Callers, q \in Callers, t \in Tuples :
    (/\ Created(p, t)
     /\ InSequence(p, q, t)
     /\ ret[q].op = "Search" /\ ret[q].t = t /\ ~ret[q].failed)
    => /\ ret[q].err = NoError
       /\ ret[q].conn = ret[p].conn

\* C6: with no record at recordKey, Search fails with a NotFound error carrying
\* namespaceA:namespaceB:peerAID:peerBID and Exists returns false with no
\* error; a storage error other than not-found makes both return an error; and
\* Exists returns true only for a record that is there.
C6_SearchAbsent ==
  [][\A p \in Callers, t \in Tuples, fail \in BOOLEAN, now \in Times :
       LET key == t.nsA \o ":" \o t.nsB \o ":" \o t.pA \o ":" \o t.pB
       IN /\ SearchCall(p, t, fail, now) =>
               /\ (~fail /\ ~kv[key].present) =>
                     (ret'[p].err = [kind |-> "notFound", msg |-> key]
                        /\ ret'[p].conn.isNil)
               /\ fail => (ret'[p].err # NoError /\ ~IsNotFound(ret'[p].err)
                             /\ ret'[p].conn.isNil)
          /\ ExistsCall(p, t, fail, now) =>
               /\ (~fail /\ ~kv[key].present) =>
                     (ret'[p].ok = FALSE /\ ret'[p].err = NoError)
               /\ fail => (ret'[p].err # NoError /\ ret'[p].ok = FALSE)
               /\ ret'[p].ok => (~fail /\ kv[key].present)]_vars

C6_Witness ==
  \E p \in Callers, q \in Callers :
    /\ pc[p] = "returned" /\ ret[p].op = "Search"
    /\ IsNotFound(ret[p].err) /\ ret[p].err.msg = "ns1:ns2:pa:pb"
    /\ pc[q] = "returned" /\ ret[q].op = "Exists"
    /\ ret[q].err = NoError /\ ~ret[q].ok /\ ~ret[q].failed

\* C7: decoding the encoding of a Connection built by New yields a Connection
\* with the same created, id, peerAID, peerBID and weight.
C7_RoundTrip ==
  codec.stage = "decoded" =>
    \A f \in ConnectionFields : codec.out[f] = codec.conn[f]

\* C8: a Create that handed its actions to the task runner and returned no error
\* has added peerBID to the set and written the record, and a Delete that did
\* and returned no error has removed both, also when an action fails or the
\* canceler fires during the call.
C8_NoPartialSuccess ==
  \A p \in Callers :
    (/\ pc[p] = "returned"
     /\ ret[p].op \in {"Create", "Delete"}
     /\ ret[p].acts # NoActs
     /\ ret[p].err = NoError)
    => ret[p].acts = Wrote

\* C9: NewService fails with InvalidConfiguration for weight 0 and otherwise
\* keeps the configured weight w, which never changes; Weight() returns w; and
\* every Connection returned by a Create that wrote a new record has weight w.
C9_WeightPropagation ==
  /\ [][\A hasStorage \in BOOLEAN, hasWorker \in BOOLEAN, w \in 0..MaxWeight :
          NewService(hasStorage, hasWorker, w) =>
            /\ w = 0 => (newErr'.kind = "invalidConfig" /\ svc' = "nil")
            /\ svc' = "ready" => (w # 0 /\ weight' = w)]_vars
  /\ [][svc = "ready" => (svc' = "ready" /\ weight' = weight)]_vars
  /\ [](svc = "ready" => weight # 0)
  /\ [](\A p \in Callers :
          /\ (pc[p] = "returned" /\ ret[p].op = "Weight") => ret[p].num = weight
          /\ (pc[p] = "returned" /\ ret[p].op = "Create" /\ ret[p].err = NoError
                /\ ret[p].acts # NoActs /\ ret[p].acts[2] = "done")
             => (~ret[p].conn.isNil /\ ret[p].conn.weight = weight))

C9_Witness ==
  \E p \in Callers :
    /\ pc[p] = "returned" /\ ret[p].op = "Create" /\ ret[p].err = NoError
    /\ ret[p].acts = Wrote
    /\ ret[p].conn.weight = MaxWeight /\ weight = MaxWeight

\* the state of the lifecycle: Idle, Booted or Shutdown
LifecycleState ==
  IF shutdownDone THEN "Shutdown" ELSE IF bootDone THEN "Booted" ELSE "Idle"

\* C10: the service starts Idle; Boot moves Idle to Booted and changes nothing
\* otherwise; Shutdown moves every state to Shutdown; nothing leaves Shutdown,
\* and nothing but Boot and Shutdown changes the state.
C10_Lifecycle ==
  /\ [](svc = "nil" => LifecycleState = "Idle")
  /\ [](closerClosed <=> LifecycleState = "Shutdown")
  /\ [][Boot => LifecycleState' = (IF LifecycleState = "Idle" THEN "Booted"
                                                               ELSE LifecycleState)]_vars
  /\ [][Shutdown => LifecycleState' = "Shutdown"]_vars
  /\ [][LifecycleState = "Shutdown" => LifecycleState' = "Shutdown"]_vars
  /\ [][LifecycleState' # LifecycleState => (Boot \/ Shutdown)]_vars

C10_Witness == LifecycleState = "Shutdown" /\ bootDone /\ closeCount = 1

\* C11: the cancellation signal is unfired until the first Shutdown call, which
\* fires it; it is fired once however many Shutdown calls there are, and stays
\* fired; it is the one signal the task runner watches for every Create and
\* Delete call, so a call in flight or begun later has no action launched
\* once it fired.
C11_OneShotCancellation ==
  /\ [](closeCount = IF closerClosed THEN 1 ELSE 0)
  /\ [](closerClosed <=> shutdownDone)
  /\ [][Shutdown => (closerClosed' /\ closeCount' = 1)]_vars
  /\ [][closerClosed' # closerClosed => (Shutdown /\ ~closerClosed)]_vars
  /\ [][closerClosed => closerClosed']_vars
  /\ [][\A p \in Callers, i \in 1..2 :
         (/\ pc[p] = "executing" /\ pc'[p] = "executing"
          /\ call[p].acts[i] = "pending" /\ call'[p].acts[i] # "pending")
         => call'[p].acts[i] = (IF closerClosed THEN "aborted" ELSE "running")]_vars

\* Shutdown was called while one call was in flight and before another began;
\* both had an action dropped
C11_Witness ==
  /\ closerClosed /\ closeCount = 1
  /\ \E p \in Callers, q \in Callers :
       /\ p # q
       /\ pc[p] = "returned" /\ ret[p].acts = <<"done", "aborted">>
       /\ pc[q] = "returned" /\ ret[q].acts = <<"aborted", "aborted">>
       /\ p \in ret[q].after

\* the configuration New was called with lacks one of the four settings New needs
C12_Incomplete(config) ==
  config.created = 0 \/ config.id = "" \/ config.peerAID = "" \/ config.peerBID = ""

\* C12: New fails with an invalid configuration error exactly when created is
\* the zero time or id, peerAID or peerBID is empty; otherwise it succeeds for
\* every weight, zero included, and the accessors of the Connection return the
\* configured values.
C12_Construction ==
  codec.stage \in {"built", "invalid", "encoded", "decoded"}
  => /\ (codec.err.kind = "invalidConfig") <=> C12_Incomplete(codec.config)
     /\ C12_Incomplete(codec.config) => codec.conn.isNil
     /\ ~C12_Incomplete(codec.config)
        => /\ codec.err = NoError
           /\ ~codec.conn.isNil
           /\ \A f \in ConnectionFields : codec.conn[f] = codec.config[f]

\* New was given a complete configuration of weight zero and built a Connection
C12_Witness ==
  /\ codec.stage = "built"
  /\ ~C12_Incomplete(codec.config) /\ codec.config.weight = 0
  /\ ~codec.conn.isNil /\ codec.conn.weight = 0 /\ codec.conn.id = codec.config.id

\* no Create or Delete call is inside worker.Execute
Quiescent == \A p \in Callers : pc[p] # "executing"

\* the Create and Delete calls made so far did not overlap one another
NonOverlapping ==
  \A p \in Callers :
    (pc[p] = "returned" /\ ret[p].op \in {"Create", "Delete"}) => ret[p].alone

\* the record of tuple t is stored, the set of its adjacency key holds its peerB
HasRecord(t) == kv[connectionID(t)].present
HasIndexEntry(t) == t.pB \in sets[listID(t)]

\* C13: in every quiescent state after Create and Delete calls that did not
\* overlap, with no storage failure and no cancellation, the record of a tuple
\* exists exactly when the set at its adjacency key holds its peerBID.
C13_IndexRecordAgreement ==
  (Quiescent /\ NonOverlapping /\ failures = 0 /\ ~closerClosed)
  => \A t \in Tuples : HasRecord(t) <=> HasIndexEntry(t)

\* a Create of one tuple, then a Delete of it, then quiet: one edge is stored,
\* another is not
C13_Witness ==
  /\ Quiescent /\ NonOverlapping /\ failures = 0 /\ ~closerClosed
  /\ \E p \in Callers, q \in Callers, t \in Tuples, u \in Tuples :
       /\ Created(p, t) /\ InSequence(p, q, t)
       /\ ret[q].op = "Delete" /\ ret[q].t = t
       /\ HasRecord(t) /\ HasIndexEntry(t)
       /\ ~HasRecord(u) /\ ~HasIndexEntry(u)

\* callers p and q both ran Create of tuple t through both of its actions: each
\* passed the lookup before the other wrote the record
BothWrote(p, q, t) ==
  /\ p # q
  /\ pc[p] = "returned" /\ ret[p].op = "Create" /\ ret[p].t = t /\ ret[p].acts = Wrote
  /\ pc[q] = "returned" /\ ret[q].op = "Create" /\ ret[q].t = t /\ ret[q].acts = Wrote

\* the record and the index entry two racing Create calls of tuple t leave
Converged(p, q, t) ==
  /\ HasRecord(t)
  /\ kv[connectionID(t)].doc = MarshalJSON(ret[p].conn)
  /\ kv[connectionID(t)].doc = MarshalJSON(ret[q].conn)
  /\ Cardinality({m \in sets[listID(t)] : m = t.pB}) = 1

\* C14 as stated: two Create calls of one tuple that both pass the lookup and
\* both write leave one record of the same id, peers, weight and created time
\* whatever the interleaving, both return Connections equal to that record
\* (and so to one another), and the set holds peerBID once.
C14_ConcurrentCreate ==
  \A p \in Callers, q \in Callers, t \in Tuples :
    (BothWrote(p, q, t) /\ Quiescent)
    => /\ Converged(p, q, t)
       /\ ret[p].err = NoError /\ ret[q].err = NoError
       /\ ret[p].conn = ret[q].conn

\* C14 amended: the two calls leave one stored document, which is the encoding
\* of either returned Connection; the returned Connections carry the record
\* key as id, the peers of the call and the weight of the service, and may
\* differ in their created time; the set holds peerBID once.
C14_ConcurrentCreateButCreated ==
  \A p \in Callers, q \in Callers, t \in Tuples :
    (BothWrote(p, q, t) /\ Quiescent)
    => /\ Converged(p, q, t)
       /\ ret[p].err = NoError /\ ret[q].err = NoError
       /\ ~ret[p].conn.isNil /\ ~ret[q].conn.isNil
       /\ SameEdge(ret[p].conn, ret[q].conn)
       /\ ret[p].conn.id = connectionID(t)
       /\ ret[p].conn.peerAID = t.pA /\ ret[p].conn.peerBID = t.pB
       /\ ret[p].conn.weight = weight

\* two racing Create calls of one tuple wrote at different times
C14_Witness ==
  \E p \in Callers, q \in Callers, t \in Tuples :
    /\ BothWrote(p, q, t) /\ Quiescent
    /\ p \notin ret[q].after /\ q \notin ret[p].after
    /\ ret[p].conn.created # ret[q].conn.created

\* of the two actions of the call, one took effect and the other failed or was
\* dropped
Partial(acts) ==
  \E i \in 1..2, j \in 1..2 :
    i # j /\ acts[i] = "done" /\ acts[j] \in {"failed", "aborted"}

\* C15: a Create or Delete of which one action took effect and the other
\* failed or was aborted by cancellation returns an error, and its return
\* leaves the applied write in place: nothing is rolled back or repaired.
C15_PartialFailureKept ==
  /\ [](\A p \in Callers :
         (pc[p] = "returned" /\ ret[p].op \in {"Create", "Delete"} /\ Partial(ret[p].acts))
         => ret[p].err # NoError)
  /\ [][\A p \in Callers :
         (pc[p] = "executing" /\ pc'[p] = "returned" /\ Partial(call[p].acts))
         => (kv' = kv /\ sets' = sets)]_vars

\* the peerB IDs under the adjacency key of tuple t whose edge was created by a
\* call that returned no error and has not had a Delete call since
LivePeers(t) ==
  {u.pB : u \in {u \in Tuples :
                   /\ u.nsA = t.nsA /\ u.nsB = t.nsB /\ u.pA = t.pA
                   /\ \E p \in Callers :
                        /\ Created(p, u)
                        /\ ~\E q \in Callers :
                              /\ pc[q] = "returned" /\ ret[q].op = "Delete"
                              /\ ret[q].t = u /\ p \in ret[q].after}}

\* C17: after Create and Delete calls that did not overlap, with no storage
\* failure, SearchPeers of an adjacency key returns exactly the peerB IDs created
\* under it and not deleted since, and the NotFound error naming the adjacency
\* key when there is none.
C17_SearchPeersResult ==
  \A t \in Tuples :
    (Quiescent /\ NonOverlapping /\ failures = 0 /\ ~closerClosed)
    => LET r == SearchPeers(t, FALSE)
       IN IF LivePeers(t) = {}
            THEN r.err = notFoundError(t.nsA \o ":" \o t.nsB \o ":" \o t.pA)
            ELSE r.err = NoError /\ r.peers = LivePeers(t)

\* what a call is left with when its lookup failed: the error, no Connection,
\* no action handed to the task runner, storage as it was
Blocked(p, op, err) ==
  /\ pc'[p] = "returned"
  /\ ret'[p].op = op /\ ret'[p].err = err /\ ret'[p].conn.isNil
  /\ ret'[p].acts = NoActs
  /\ call'[p] = NoCall
  /\ kv' = kv /\ sets' = sets

\* C18: a Create whose Search, or a Delete whose Exists, fails with an error
\* other than not-found returns that error, submits no action and leaves
\* storage unchanged.
C18_FailedLookupBlocks ==
  [][\A p \in Callers, t \in Tuples, fail \in BOOLEAN, now \in Times :
       /\ (/\ CreateBegin(p, t, fail, now)
           /\ Search(t, fail, now).err # NoError
           /\ ~IsNotFound(Search(t, fail, now).err))
          => Blocked(p, "Create", Search(t, fail, now).err)
       /\ (/\ DeleteBegin(p, t, fail, now)
           /\ Exists(t, fail, now).err # NoError)
          => Blocked(p, "Delete", Exists(t, fail, now).err)]_vars

\* a Create of a stored edge was turned back by a storage failure of its
\* lookup, and the edge is stored as before
C18_Witness ==
  \E p \in Callers, q \in Callers, t \in Tuples :
    /\ Created(q, t) /\ q \in ret[p].after
    /\ pc[p] = "returned" /\ ret[p].op = "Create" /\ ret[p].t = t
    /\ ret[p].err = storageFailure /\ ret[p].conn.isNil /\ ret[p].acts = NoActs
    /\ HasRecord(t) /\ HasIndexEntry(t)

\* C19: a Create or Delete that handed its two actions to the task runner does
\* not return before both completed or failed or the cancellation fired; with
\* workers that keep running it returns in the end, whether or not Shutdown is
\* called while it is in flight.
C19_CallsReturn ==
  /\ [][\A p \in Callers :
         (pc[p] = "executing" /\ pc'[p] = "returned")
         => \/ \A i \in 1..2 : call[p].acts[i] \in {"done", "failed"}
            \/ closerClosed]_vars
  /\ \A p \in Callers : (pc[p] = "executing") ~> (pc[p] = "returned")

\* a call in flight when Shutdown was called returned, one action run and the
\* other dropped
C19_Witness ==
  \E p \in Callers :
    /\ closerClosed
    /\ pc[p] = "returned" /\ ret[p].op = "Create"
    /\ ret[p].acts = <<"aborted", "done">>

\* C20: a Create that returns no error returns a Connection that is not nil,
\* whose id is the record key of the tuple and whose peer ids are those of the
\* call, also when the call begins after Shutdown or is overtaken by it.
C20_NoEmptySuccess ==
  \A p \in Callers :
    (pc[p] = "returned" /\ ret[p].op = "Create" /\ ret[p].err = NoError)
    => /\ ~ret[p].conn.isNil
       /\ ret[p].conn.id = ret[p].t.nsA \o ":" \o ret[p].t.nsB \o ":" \o
                           ret[p].t.pA \o ":" \o ret[p].t.pB
       /\ ret[p].conn.peerAID = ret[p].t.pA
       /\ ret[p].conn.peerBID = ret[p].t.pB

====
